---------------------------- MODULE Spec2Model ----------------------------
(***************************************************************************)
(* A model of inst/python/ner_names.py: span merging and rewriting, the    *)
(* dictionary detector, the three public batch operations, and the two     *)
(* process-wide caches (spaCy pipeline, surname dictionaries).             *)
(*                                                                         *)
(* Python values are modelled as follows.                                  *)
(*   str            a sequence of one-character strings                    *)
(*   (start, end)   a pair <<start, end>> of 0-based offsets, half open    *)
(*   batch entry    a record [kind, val]: kind "None" (Python None),       *)
(*                  "int" (some object that is not a str) or "str"         *)
(*   a raise        a result record [kind |-> "raise", exc |-> ...]        *)
(***************************************************************************)
EXTENDS Integers, Sequences, FiniteSets, TLC

VARIABLES
    call,           \* the operation being performed / last performed, with its arguments
    ret,            \* its outcome: pending, a value, or a raised exception
    _spacy_nlp,     \* module global _spacy_nlp (line 17): "None" or a loaded pipeline
    _surname_cache, \* module global _surname_cache (line 105): path -> loaded set object
    readable,       \* file system: the dictionary paths open() can read right now
    spacy_loads,    \* ghost: number of successful spacy.load calls per model name
    file_reads,     \* ghost: number of successful file reads per dictionary path
    piped,          \* ghost: the pipeline and texts of the last _spacy_nlp.pipe call
    detected,       \* ghost: batch positions handed to a detector in the last call
    tpc,            \* per thread: position inside a loader function
    targ,           \* per thread: the key (path / model name) the thread is loading
    tval            \* per thread: local value (the object read, then the object returned)

vars == <<call, ret, _spacy_nlp, _surname_cache, readable, spacy_loads,
          file_reads, piped, detected, tpc, targ, tval>>

-----------------------------------------------------------------------------
(* Bounds of the model *)

MaxOff == 3
MaxSpans == 3
MaxTextLen == 3
MaxApplySpans == 2
MaxDictLen == 4
MaxBatch == 2
MaxTitleLen == 5

-----------------------------------------------------------------------------
(* Python built-ins used by the source *)

Max(a, b) == IF a >= b THEN a ELSE b
Min(a, b) == IF a <= b THEN a ELSE b

\* text[:n] for n >= 0 (a slice bound past the end is clamped)
SliceTo(text, n) == SubSeq(text, 1, Min(n, Len(text)))

\* text[n:] for n >= 0
SliceFrom(text, n) == SubSeq(text, Min(n, Len(text)) + 1, Len(text))

\* text[a:b] for 0 <= a, 0 <= b
Slice(text, a, b) == SubSeq(text, Min(a, Len(text)) + 1, Min(b, Len(text)))

\* one step of a stable insertion: x goes after every element whose key is <= its own
RECURSIVE InsertAsc(_, _)
InsertAsc(x, s) ==
    IF s = <<>> THEN <<x>>
    ELSE IF x[1] < Head(s)[1] THEN <<x>> \o s
    ELSE <<Head(s)>> \o InsertAsc(x, Tail(s))

\* sorted(spans, key=lambda s: s[0]): stable, ascending by start
RECURSIVE SortedAscFrom(_, _)
SortedAscFrom(acc, rest) ==
    IF rest = <<>> THEN acc
    ELSE SortedAscFrom(InsertAsc(Head(rest), acc), Tail(rest))

sorted_by_start(spans) == SortedAscFrom(<<>>, spans)

RECURSIVE InsertDesc(_, _)
InsertDesc(x, s) ==
    IF s = <<>> THEN <<x>>
    ELSE IF x[1] > Head(s)[1] THEN <<x>> \o s
    ELSE <<Head(s)>> \o InsertDesc(x, Tail(s))

RECURSIVE SortedDescFrom(_, _)
SortedDescFrom(acc, rest) ==
    IF rest = <<>> THEN acc
    ELSE SortedDescFrom(InsertDesc(Head(rest), acc), Tail(rest))

\* sorted(spans, key=lambda s: s[0], reverse=True): stable, descending by start
sorted_by_start_reverse(spans) == SortedDescFrom(<<>>, spans)

-----------------------------------------------------------------------------
(* Span utilities *)

\* the condition of line 50 with < for <=: touching spans stay apart
Touches_strict(start, last_end) == start < last_end

\* line 50: the next span overlaps or abuts the last merged one
Touches(start, last_end) == start <= last_end

\* the loop of lines 49-53
RECURSIVE MergeLoop(_, _)
MergeLoop(merged, rest) ==
    IF rest = <<>> THEN merged
    ELSE LET sp == Head(rest)
             n == Len(merged)
             last == merged[n]
         IN  IF Touches(sp[1], last[2])
             THEN MergeLoop([merged EXCEPT ![n] = <<last[1], Max(last[2], sp[2])>>],
                            Tail(rest))
             ELSE MergeLoop(Append(merged, sp), Tail(rest))

_merge_spans(spans) ==
    IF spans = <<>> THEN <<>>
    ELSE LET sorted_spans == sorted_by_start(spans)
         IN  MergeLoop(<<sorted_spans[1]>>, Tail(sorted_spans))

\* line 59 without reverse=True: spans are replaced left to right
ApplyOrder_ascending(spans) == sorted_by_start(spans)

\* line 59: the order in which the spans are replaced
ApplyOrder(spans) == sorted_by_start_reverse(spans)

\* the loop body of line 60, once per span
RECURSIVE ApplyLoop(_, _, _)
ApplyLoop(text, order, replacement) ==
    IF order = <<>> THEN text
    ELSE LET start == Head(order)[1]
             end == Head(order)[2]
         IN  ApplyLoop(SliceTo(text, start) \o replacement \o SliceFrom(text, end),
                       Tail(order), replacement)

_apply_spans(text, spans, replacement) == ApplyLoop(text, ApplyOrder(spans), replacement)

-----------------------------------------------------------------------------
(* Values shared by the specifications *)

Pending == [kind |-> "pending"]
NoCall == [op |-> "none"]
NoPipe == [nlp |-> "None", texts |-> <<>>]

Threads == {1, 2}

\* the dictionary files the model knows: one that exists and one that never does
Paths == {"surnames.txt", "missing.txt"}

\* the dictionary files the detector is run with on its own
DictPaths == {"d_a.txt", "d_as.txt", "d_aas.txt", "d_aaa.txt", "d_aaas.txt", "d_aa_s.txt"}

AllPaths == Paths \cup DictPaths

\* the model names the model knows: two installed models and one that is not installed
Models == {"de_core_news_lg", "de_core_news_sm", "de_not_installed"}
Installed == {"de_core_news_lg", "de_core_news_sm"}

\* a cache slot that holds nothing: the path is not a key of _surname_cache
NotCached == [obj |-> 0, names |-> {}]

\* the state of the process right after the module is imported
Idle ==
    /\ _spacy_nlp = "None"
    /\ _surname_cache = [p \in AllPaths |-> NotCached]
    /\ readable = AllPaths \ {"missing.txt"}
    /\ spacy_loads = [m \in Models |-> 0]
    /\ file_reads = [p \in AllPaths |-> 0]
    /\ piped = NoPipe
    /\ detected = {}
    /\ tpc = [t \in Threads |-> "idle"]
    /\ targ = [t \in Threads |-> "none"]
    /\ tval = [t \in Threads |-> NotCached]

IdleUnchanged ==
    UNCHANGED <<_spacy_nlp, _surname_cache, readable, spacy_loads, file_reads,
                piped, detected, tpc, targ, tval>>

\* sequences over S of length at most n
RECURSIVE SeqsUpTo(_, _)
SeqsUpTo(S, n) ==
    IF n = 0 THEN {<<>>}
    ELSE LET shorter == SeqsUpTo(S, n - 1)
         IN  shorter \cup {Append(s, x) : s \in {q \in shorter : Len(q) = n - 1}, x \in S}

\* the valid spans (start <= end) over offsets 0..n
ValidSpans(n) == {sp \in (0..n) \X (0..n) : sp[1] <= sp[2]}

\* the offsets a span sequence covers
Covered(spans) == UNION {spans[k][1]..(spans[k][2] - 1) : k \in 1..Len(spans)}

-----------------------------------------------------------------------------
(* Characters.  A character is a one-character string; the two-letter names "Ae" *)
(* and "ae" stand for the single characters U+00C4 and U+00E4.                   *)

\* the upper-case letters the model uses, each with its lower-case form
CasePairs == {<<"A", "a">>, <<"S", "s">>, <<"C", "c">>, <<"D", "d">>, <<"R", "r">>,
              <<"O", "o">>, <<"P", "p">>, <<"E", "e">>, <<"K", "k">>, <<"Ae", "ae">>}

UpperLetters == {p[1] : p \in CasePairs}
LowerLetters == {p[2] : p \in CasePairs} \cup {"f", "z", "m", "x"}

\* the members the model uses of the class [A-Za-zÀ-ɏḀ-ỿ] (lines 127-128)
Letters == UpperLetters \cup LowerLetters

Digits == {"0", "1", "2", "3", "4", "5", "6", "7", "8", "9"}

\* the characters \s matches and str.strip() removes
Whitespace == {" ", "\t", "\n", "\r"}

\* the characters \w matches (for \b)
WordChars == Letters \cup Digits \cup {"_"}

\* character c of str.lower()
Lower(c) == IF c \in UpperLetters THEN (CHOOSE p \in CasePairs : p[1] = c)[2] ELSE c

\* str.lower()
lower(s) == [k \in 1..Len(s) |-> Lower(s[k])]

\* text[i] for a 0-based offset i; "" when i is outside the text
At(text, i) == IF 0 <= i /\ i < Len(text) THEN text[i + 1] ELSE ""

RECURSIVE lstrip(_)
lstrip(s) == IF s # <<>> /\ Head(s) \in Whitespace THEN lstrip(Tail(s)) ELSE s

RECURSIVE rstrip(_)
rstrip(s) ==
    IF s # <<>> /\ s[Len(s)] \in Whitespace THEN rstrip(SubSeq(s, 1, Len(s) - 1)) ELSE s

\* str.strip()
strip(s) == rstrip(lstrip(s))

\* str.split('-')
RECURSIVE SplitFrom(_, _)
SplitFrom(cur, rest) ==
    IF rest = <<>> THEN <<cur>>
    ELSE IF Head(rest) = "-" THEN <<cur>> \o SplitFrom(<<>>, Tail(rest))
    ELSE SplitFrom(Append(cur, Head(rest)), Tail(rest))

split_hyphen(token) == SplitFrom(<<>>, token)

-----------------------------------------------------------------------------
(* Dictionary files and load_surname_dict *)

\* the lines of each file (without the line terminator, which strip() removes)
FileLines(path) ==
    CASE path = "surnames.txt" -> << <<"#", "a">>, <<>>, <<" ", "A", "s", " ">> >>
      [] path = "d_a.txt"      -> << <<"a">> >>
      [] path = "d_as.txt"     -> << <<" ", "A", "s", " ">>, <<" ">> >>
      [] path = "d_aas.txt"    -> << <<"#", "a">>, <<"A", "A", "S">> >>
      [] path = "d_aaa.txt"    -> << <<"a", "a", "a">>, <<>> >>
      [] path = "d_aaas.txt"   -> << <<"a", "a", "a", "s">> >>
      [] path = "d_aa_s.txt"   -> << <<"a", "a", "\t">>, <<"S">> >>
      [] OTHER                 -> <<>>

\* lines 117-121: the stripped lines that are not blank and do not start with "#", lowercased
RECURSIVE NamesOf(_)
NamesOf(lines) ==
    IF lines = <<>> THEN {}
    ELSE LET line == Head(lines)
         IN  (IF strip(line) # <<>> /\ At(line, 0) # "#" THEN {lower(strip(line))} ELSE {})
                 \cup NamesOf(Tail(lines))

\* load_surname_dict without the exception of open(): a missing file is an empty dictionary
load_surname_dict_swallow(dict_path, cache, files, reads) ==
    IF cache[dict_path] # NotCached
    THEN [exc |-> "none", value |-> cache[dict_path], cache |-> cache, reads |-> reads]
    ELSE LET names == IF dict_path \in files THEN NamesOf(FileLines(dict_path)) ELSE {}
             obj == [obj |-> reads[dict_path] + 1, names |-> names]
         IN  [exc |-> "none", value |-> obj,
              cache |-> [cache EXCEPT ![dict_path] = obj],
              reads |-> [reads EXCEPT ![dict_path] = @ + 1]]

\* load_surname_dict(dict_path) in a process whose cache is `cache`, whose readable files
\* are `files` and which has read each path reads[path] times: the value returned (or
\* the exception raised), the cache and the read counts afterwards
load_surname_dict(dict_path, cache, files, reads) ==
    IF cache[dict_path] # NotCached
    THEN [exc |-> "none", value |-> cache[dict_path], cache |-> cache, reads |-> reads]
    ELSE IF dict_path \notin files
    THEN [exc |-> "OSError", value |-> NotCached, cache |-> cache, reads |-> reads]
    ELSE LET obj == [obj |-> reads[dict_path] + 1, names |-> NamesOf(FileLines(dict_path))]
         IN  [exc |-> "none", value |-> obj,
              cache |-> [cache EXCEPT ![dict_path] = obj],
              reads |-> [reads EXCEPT ![dict_path] = @ + 1]]

-----------------------------------------------------------------------------
(* The dictionary detector *)

\* _normalise stripping the final s of every word longer than two characters
_normalise_short(word) ==
    LET w == lower(word)
    IN  IF Len(w) > 0 /\ w[Len(w)] = "s" /\ Len(w) > 2 THEN SubSeq(w, 1, Len(w) - 1) ELSE w

_normalise(word) ==
    LET w == lower(word)
    IN  IF Len(w) > 0 /\ w[Len(w)] = "s" /\ Len(w) > 3 THEN SubSeq(w, 1, Len(w) - 1) ELSE w

\* the end of the longest run of letters that starts at offset i (i itself if none)
RECURSIVE LettersEnd(_, _)
LettersEnd(text, i) == IF At(text, i) \in Letters THEN LettersEnd(text, i + 1) ELSE i

\* (?:-[letters]+)* from offset j on, greedy
RECURSIVE HyphenPartsEnd(_, _)
HyphenPartsEnd(text, j) ==
    IF At(text, j) = "-" /\ At(text, j + 1) \in Letters
    THEN HyphenPartsEnd(text, LettersEnd(text, j + 1))
    ELSE j

\* _WORD_RE.match at offset i: the end of the match, or -1
WordMatchEnd(text, i) ==
    IF At(text, i) \in Letters THEN HyphenPartsEnd(text, LettersEnd(text, i)) ELSE -1

\* _WORD_RE.finditer(text) from offset pos on: the (start, end) of each match in order
RECURSIVE WordMatchesFrom(_, _)
WordMatchesFrom(text, pos) ==
    IF pos >= Len(text) THEN <<>>
    ELSE IF WordMatchEnd(text, pos) = -1 THEN WordMatchesFrom(text, pos + 1)
    ELSE <<<<pos, WordMatchEnd(text, pos)>>>> \o WordMatchesFrom(text, WordMatchEnd(text, pos))

_WORD_RE_finditer(text) == WordMatchesFrom(text, 0)

\* whether the lowercased characters of s from offset p on spell the word w
LitAt(s, p, w) == \A k \in 1..Len(w) : Lower(At(s, p + k - 1)) = w[k]

\* \.? at offset q: the offsets where the match may end
OptDot(s, Q) == Q \cup {q + 1 : q \in {x \in Q : At(s, x) = "."}}

\* \s* or \s+ : the end of the whitespace run that starts at offset q
RECURSIVE WsEnd(_, _)
WsEnd(s, q) == IF At(s, q) \in Whitespace THEN WsEnd(s, q + 1) ELSE q

\* the abbreviations of line 133 other than Dr, lowercased (re.IGNORECASE)
TitleWords == {<<"p", "r", "o", "f">>, <<"d", "o", "z">>, <<"p", "d">>, <<"o", "a">>,
               <<"o", "ae">>, <<"c", "a">>, <<"c", "ae">>}

\* the offsets where (?:(?:Prof\.?\s+)?Dr\.?|Prof\.?|Doz\.?|...) may end when it starts at p
TitleEnds(s, p) ==
    LET dr == <<"d", "r">>
        prof == <<"p", "r", "o", "f">>
        plain == {p + Len(w) : w \in {x \in TitleWords \cup {dr} : LitAt(s, p, x)}}
        afterProf == IF LitAt(s, p, prof) THEN OptDot(s, {p + 4}) ELSE {}
        \* \s+ gives back whitespace on backtracking: Dr may start after any non-empty part of it
        drStarts == UNION {(q + 1)..WsEnd(s, q) : q \in afterProf}
        profDr == {r + 2 : r \in {x \in drStarts : LitAt(s, x, dr)}}
    IN  OptDot(s, plain \cup profDr)

\* $ at offset q of s: the end of s, or just before a final line feed
AtDollar(s, q) == q = Len(s) \/ (q = Len(s) - 1 /\ At(s, q) = "\n")

\* the offsets where \s*$ may end when it starts at q
TailEnds(s, q) == {r \in q..WsEnd(s, q) : AtDollar(s, r)}

\* whether _TITLE_RE matches s starting at offset p
TitleMatchesAt(s, p) == \E q \in TitleEnds(s, p) : TailEnds(s, q) # {}

\* _TITLE_RE.search(s): len(group(1)) of the leftmost match, or -1 when there is none.
\* Every match of one start ends where \s* has taken all the whitespace it can.
_TITLE_RE_search(s) ==
    LET starts == {p \in 0..Len(s) : TitleMatchesAt(s, p)}
    IN  IF starts = {} THEN -1
        ELSE LET p == CHOOSE x \in starts : \A y \in starts : x <= y
                 ends == UNION {TailEnds(s, q) : q \in TitleEnds(s, p)}
             IN  (CHOOSE e \in ends : \A f \in ends : e >= f) - p

\* line 172: any(_normalise(p) in surname_set for p in parts)
Matched(token, surname_set) ==
    LET parts == split_hyphen(token)
    IN  \E k \in 1..Len(parts) : _normalise(parts[k]) \in surname_set

\* lines 174-183 for one match (start, end) of _WORD_RE
SpanOf(text, m, title_prefix) ==
    LET prefix_len == IF title_prefix THEN _TITLE_RE_search(SliceTo(text, m[1])) ELSE -1
    IN  IF prefix_len # -1 THEN <<m[1] - prefix_len, m[2]>> ELSE m

\* the loop of lines 167-183 over the remaining matches
RECURSIVE DictSpansLoop(_, _, _, _)
DictSpansLoop(text, matches, surname_set, title_prefix) ==
    IF matches = <<>> THEN <<>>
    ELSE LET m == Head(matches)
             rest == DictSpansLoop(text, Tail(matches), surname_set, title_prefix)
         IN  IF Matched(Slice(text, m[1], m[2]), surname_set)
             THEN <<SpanOf(text, m, title_prefix)>> \o rest
             ELSE rest

\* _dict_spans(text, dict_path, title_prefix): the spans (or the exception of the load),
\* and the cache and read counts afterwards
_dict_spans(text, dict_path, title_prefix, cache, files, reads) ==
    LET loaded == load_surname_dict(dict_path, cache, files, reads)
    IN  [exc |-> loaded.exc,
         spans |-> IF loaded.exc = "none"
                   THEN DictSpansLoop(text, _WORD_RE_finditer(text), loaded.value.names,
                                      title_prefix)
                   ELSE <<>>,
         cache |-> loaded.cache,
         reads |-> loaded.reads]

-----------------------------------------------------------------------------
(* Specification SpecMerge: _merge_spans on every bounded sequence of valid spans *)

InitMerge ==
    /\ call \in {[op |-> "_merge_spans", spans |-> s] : s \in SeqsUpTo(ValidSpans(MaxOff), MaxSpans)}
    /\ ret = Pending
    /\ Idle

CallMerge ==
    /\ call.op = "_merge_spans"
    /\ ret = Pending
    /\ ret' = [kind |-> "spans", spans |-> _merge_spans(call.spans)]
    /\ UNCHANGED call
    /\ IdleUnchanged

NextMerge == CallMerge

SpecMerge == InitMerge /\ [][NextMerge]_vars

\* C2: for every sequence of valid spans, _merge_spans gives valid spans sorted by start
\* with e1 < s2 between neighbours, covering exactly the offsets the input covers; every
\* input span lies inside one output span, input spans that overlap or abut lie inside
\* the same one, and the empty input gives the empty output.
MergeSpansCorrect ==
    (call.op = "_merge_spans" /\ ret.kind = "spans") =>
        LET inp == call.spans
            out == ret.spans
        IN  /\ \A k \in 1..Len(out) : out[k][1] <= out[k][2]
            /\ \A k \in 1..(Len(out) - 1) : out[k][2] < out[k + 1][1]
            /\ Covered(out) = Covered(inp)
            /\ \A i \in 1..Len(inp) :
                   \E k \in 1..Len(out) : out[k][1] <= inp[i][1] /\ inp[i][2] <= out[k][2]
            /\ \A i, j \in 1..Len(inp) :
                   (inp[i][1] <= inp[j][2] /\ inp[j][1] <= inp[i][2]) =>
                       \E k \in 1..Len(out) :
                           /\ out[k][1] <= inp[i][1] /\ inp[i][2] <= out[k][2]
                           /\ out[k][1] <= inp[j][1] /\ inp[j][2] <= out[k][2]
            /\ (inp = <<>> => out = <<>>)

\* an unsorted input whose later span ends exactly where the earlier one starts has been
\* merged into a single span, next to a span that stayed separate
MergeSpansWitness ==
    /\ call.op = "_merge_spans"
    /\ ret.kind = "spans"
    /\ Len(call.spans) = 3
    /\ Len(ret.spans) = 2
    /\ \E i, j \in 1..Len(call.spans) :
           /\ i < j
           /\ call.spans[j][2] = call.spans[i][1]
           /\ call.spans[j][1] < call.spans[j][2]
           /\ call.spans[i][1] < call.spans[i][2]

-----------------------------------------------------------------------------
(* Specification SpecApply: _apply_spans on every bounded text, replacement and *)
(* merged span set given in any order, and on the example of the specification  *)

\* span sequences whose spans are pairwise apart (e1 < s2 once sorted), in any order
MergedSpanSeqs(n, k) ==
    {s \in SeqsUpTo(ValidSpans(n), k) :
        \A i, j \in 1..Len(s) : i # j => (s[i][2] < s[j][1] \/ s[j][2] < s[i][1])}

Replacements == {<<>>, <<"X">>, <<"X", "Y">>}

ExampleText == <<"A", "B", " ", "C", "D", " ", "E", "F">>

InitApply ==
    /\ \/ \E text \in SeqsUpTo({"a", "b"}, MaxTextLen) :
              call \in {[op |-> "_apply_spans", text |-> text, spans |-> s, replacement |-> r] :
                            s \in MergedSpanSeqs(Len(text), MaxApplySpans), r \in Replacements}
       \/ call = [op |-> "_apply_spans", text |-> ExampleText,
                  spans |-> << <<0, 2>>, <<3, 5>> >>, replacement |-> <<"X">>]
    /\ ret = Pending
    /\ Idle

CallApply ==
    /\ call.op = "_apply_spans"
    /\ ret = Pending
    /\ ret' = [kind |-> "text", text |-> _apply_spans(call.text, call.spans, call.replacement)]
    /\ UNCHANGED call
    /\ IdleUnchanged

NextApply == CallApply

SpecApply == InitApply /\ [][NextApply]_vars

\* the text from offset pos on, with every span of the set `left` replaced by one copy of
\* the replacement and the characters between the spans kept, built left to right
RECURSIVE RewrittenFrom(_, _, _, _)
RewrittenFrom(text, pos, left, replacement) ==
    IF left = {} THEN SliceFrom(text, pos)
    ELSE LET sp == CHOOSE x \in left : \A y \in left : x[1] <= y[1]
         IN  Slice(text, pos, sp[1]) \o replacement
                 \o RewrittenFrom(text, sp[2], left \ {sp}, replacement)

\* C3: for a merged span set in any order, _apply_spans returns the text with each span
\* replaced by one copy of the replacement and all other characters kept in order; with
\* no spans it returns the text unchanged.
ApplySpansCorrect ==
    (call.op = "_apply_spans" /\ ret.kind = "text") =>
        /\ ret.text = RewrittenFrom(call.text, 0,
                                    {call.spans[k] : k \in 1..Len(call.spans)},
                                    call.replacement)
        /\ (call.spans = <<>> => ret.text = call.text)

\* the example of the specification: "AB CD EF", [(0,2),(3,5)], "X" has become "X X EF"
ApplySpansWitness ==
    /\ call.op = "_apply_spans"
    /\ call.text = ExampleText
    /\ Len(call.spans) = 2
    /\ ret.kind = "text"
    /\ ret.text = <<"X", " ", "X", " ", "E", "F">>

-----------------------------------------------------------------------------
(* Specification SpecDict: _dict_spans on every bounded text over letters, hyphen *)
(* and blank, with each dictionary file, with and without title absorption        *)

DictAlphabet == {"a", "A", "s", "-", " "}

InitDict ==
    /\ call \in {[op |-> "_dict_spans", text |-> t, dict_path |-> p, title_prefix |-> b] :
                    t \in SeqsUpTo(DictAlphabet, MaxDictLen), p \in DictPaths, b \in BOOLEAN}
    /\ ret = Pending
    /\ Idle

CallDictSpans ==
    /\ call.op = "_dict_spans"
    /\ ret = Pending
    /\ LET r == _dict_spans(call.text, call.dict_path, call.title_prefix,
                            _surname_cache, readable, file_reads)
       IN  /\ ret' = IF r.exc = "none" THEN [kind |-> "spans", spans |-> r.spans]
                     ELSE [kind |-> "raise", exc |-> r.exc]
           /\ _surname_cache' = r.cache
           /\ file_reads' = r.reads
    /\ UNCHANGED <<call, _spacy_nlp, readable, spacy_loads, piped, detected, tpc, targ, tval>>

NextDict == CallDictSpans

SpecDict == InitDict /\ [][NextDict]_vars

\* the surnames each dictionary file lists, lowercased
ListedNames(path) ==
    CASE path = "d_a.txt"    -> {<<"a">>}
      [] path = "d_as.txt"   -> {<<"a", "s">>}
      [] path = "d_aas.txt"  -> {<<"a", "a", "s">>}
      [] path = "d_aaa.txt"  -> {<<"a", "a", "a">>}
      [] path = "d_aaas.txt" -> {<<"a", "a", "a", "s">>}
      [] path = "d_aa_s.txt" -> {<<"a", "a">>, <<"s">>}
      [] path = "surnames.txt" -> {<<"a", "s">>}
      [] OTHER               -> {}

\* a word token: letters and single inner hyphens, starting and ending with a letter,
\* that cannot be extended to either side
IsWordToken(text, s, e) ==
    /\ 0 <= s /\ s < e /\ e <= Len(text)
    /\ At(text, s) \in Letters
    /\ At(text, e - 1) \in Letters
    /\ \A i \in s..(e - 1) : At(text, i) \in Letters \cup {"-"}
    /\ \A i \in s..(e - 2) : ~(At(text, i) = "-" /\ At(text, i + 1) = "-")
    /\ At(text, s - 1) \notin Letters
    /\ ~(At(text, s - 1) = "-" /\ At(text, s - 2) \in Letters)
    /\ At(text, e) \notin Letters
    /\ ~(At(text, e) = "-" /\ At(text, e + 1) \in Letters)

\* a hyphen-delimited part of the token (s, e): a maximal run of letters inside it
IsPart(text, s, e, a, b) ==
    /\ s <= a /\ a < b /\ b <= e
    /\ \A i \in a..(b - 1) : At(text, i) \in Letters
    /\ (a = s \/ At(text, a - 1) = "-")
    /\ (b = e \/ At(text, b) = "-")

\* lowercased, with one trailing s dropped if and only if the stem left has length >= 3
Normalized(word) ==
    LET w == [k \in 1..Len(word) |-> Lower(word[k])]
    IN  IF w[Len(w)] = "s" /\ Len(w) - 1 >= 3 THEN SubSeq(w, 1, Len(w) - 1) ELSE w

\* the word tokens of the text one of whose parts is, normalized, a listed name
MatchingTokens(text, names) ==
    {sp \in (0..Len(text)) \X (0..Len(text)) :
        /\ IsWordToken(text, sp[1], sp[2])
        /\ \E a, b \in 0..Len(text) :
               /\ IsPart(text, sp[1], sp[2], a, b)
               /\ Normalized(Slice(text, a, b)) \in names}

\* C7: with title absorption disabled, _dict_spans returns, in text order and once each,
\* exactly the full spans of the word tokens that have a part whose normalized form is
\* in the dictionary.
DictSpansExact ==
    (call.op = "_dict_spans" /\ ~call.title_prefix /\ ret # Pending) =>
        /\ ret.kind = "spans"
        /\ {ret.spans[k] : k \in 1..Len(ret.spans)}
               = MatchingTokens(call.text, ListedNames(call.dict_path))
        /\ \A k \in 1..(Len(ret.spans) - 1) : ret.spans[k][1] < ret.spans[k + 1][1]

\* a genitive form in mixed case has been matched: the four-letter token ending in s was
\* looked up as its three-letter stem "aaa", title absorption being off
DictSpansWitness ==
    /\ call.op = "_dict_spans"
    /\ ~call.title_prefix
    /\ call.dict_path = "d_aaa.txt"
    /\ Len(call.text) = 4
    /\ call.text[1] = "A"
    /\ call.text[4] = "s"
    /\ ret.kind = "spans"
    /\ ret.spans = << <<0, 4>> >>

\* C9: every word token, and every hyphen-delimited part of one, whose lowercased form
\* is an entry of the dictionary is covered by a span _dict_spans returns.
DictMatchComplete ==
    (call.op = "_dict_spans" /\ ret # Pending) =>
        /\ ret.kind = "spans"
        /\ \A s, e, a, b \in 0..Len(call.text) :
               (/\ IsWordToken(call.text, s, e)
                /\ IsPart(call.text, s, e, a, b)
                /\ lower(Slice(call.text, a, b)) \in ListedNames(call.dict_path))
                   => \E k \in 1..Len(ret.spans) :
                          ret.spans[k][1] <= a /\ b <= ret.spans[k][2]

-----------------------------------------------------------------------------
(* Case-ID pattern *)

\* \b at offset i: exactly one of the characters around i is a word character
WordBoundary(text, i) == (At(text, i - 1) \in WordChars) # (At(text, i) \in WordChars)

\* the alternatives of (?:AK|EK|A|E) in the order the pattern tries them
CasePrefixes == << <<"A", "K">>, <<"E", "K">>, <<"A">>, <<"E">> >>

\* whether the characters of text from offset p on are exactly the word w (case-sensitive)
ExactAt(text, p, w) == \A k \in 1..Len(w) : At(text, p + k - 1) = w[k]

\* the ways \b(?:AK|EK|A|E)/\d{1,6}/\d{1,2}\b matches at offset i: <<alternative, number
\* of digits of the first group, number of digits of the second, end offset>>
CaseIdMatches(text, i) ==
    {m \in (1..Len(CasePrefixes)) \X (1..6) \X (1..2) \X (0..Len(text)) :
        LET a == i + Len(CasePrefixes[m[1]])
            b == a + 1 + m[2]
        IN  /\ WordBoundary(text, i)
            /\ ExactAt(text, i, CasePrefixes[m[1]])
            /\ At(text, a) = "/"
            /\ \A k \in (a + 1)..(a + m[2]) : At(text, k) \in Digits
            /\ At(text, b) = "/"
            /\ \A k \in (b + 1)..(b + m[3]) : At(text, k) \in Digits
            /\ m[4] = b + 1 + m[3]
            /\ WordBoundary(text, m[4])}

\* the end of the match the backtracking search finds first at offset i (first
\* alternative, then the longest digit groups), or -1
CaseIdMatchEnd(text, i) ==
    LET ms == CaseIdMatches(text, i)
        better(x, y) == \/ x[1] < y[1]
                        \/ (x[1] = y[1] /\ x[2] > y[2])
                        \/ (x[1] = y[1] /\ x[2] = y[2] /\ x[3] >= y[3])
    IN  IF ms = {} THEN -1 ELSE (CHOOSE x \in ms : \A y \in ms : better(x, y))[4]

\* compiled.sub(replacement, text) from offset pos on, for the default pattern and a
\* replacement without backslashes
RECURSIVE CaseIdSubFrom(_, _, _)
CaseIdSubFrom(text, pos, replacement) ==
    IF pos >= Len(text) THEN <<>>
    ELSE IF CaseIdMatchEnd(text, pos) = -1
    THEN <<At(text, pos)>> \o CaseIdSubFrom(text, pos + 1, replacement)
    ELSE replacement \o CaseIdSubFrom(text, CaseIdMatchEnd(text, pos), replacement)

compiled_sub(replacement, text) == CaseIdSubFrom(text, 0, replacement)

-----------------------------------------------------------------------------
(* Batch entries *)

NoneV == [kind |-> "None", val |-> <<>>]
IntV == [kind |-> "int", val |-> <<>>]
Str(s) == [kind |-> "str", val |-> s]

\* isinstance(t, str)
IsStr(t) == t.kind = "str"

\* not isinstance(text, str) or not text.strip()  (lines 195, 232)
Skipped(t) == ~IsStr(t) \/ strip(t.val) = <<>>

\* the final comprehension of lines 88, 203, 236
NoneWhereNone(texts, results) ==
    [i \in 1..Len(texts) |-> IF texts[i].kind = "None" THEN NoneV ELSE results[i]]

-----------------------------------------------------------------------------
(* spaCy *)

\* load_spacy_model(model_name) when _spacy_nlp is `nlp`: the pipeline afterwards (named
\* by the model it was loaded from), the load counts, and the exception raised if any
load_spacy_model(model_name, nlp, loads) ==
    IF nlp = "None"
    THEN IF model_name \in Installed
         THEN [exc |-> "none", nlp |-> model_name,
               loads |-> [loads EXCEPT ![model_name] = @ + 1]]
         ELSE [exc |-> "OSError", nlp |-> nlp, loads |-> loads]
    ELSE [exc |-> "none", nlp |-> nlp, loads |-> loads]

\* line 75
safe_texts(texts) == [i \in 1..Len(texts) |-> IF IsStr(texts[i]) THEN texts[i].val ELSE <<>>]

\* the sub-sequences of a sequence
RECURSIVE SubSeqs(_)
SubSeqs(s) ==
    IF s = <<>> THEN {<<>>}
    ELSE LET rest == SubSeqs(Tail(s))
         IN  rest \cup {<<Head(s)>> \o r : r \in rest}

\* what the external model may report as the PER entities of one text: any of its words,
\* in text order (entities are non-empty, token-aligned and do not overlap)
PerEntities(text) == SubSeqs(_WORD_RE_finditer(text))

\* what the external model may report for a batch: one choice per text
RECURSIVE PipeOutputs(_)
PipeOutputs(texts) ==
    IF texts = <<>> THEN {<<>>}
    ELSE {<<e>> \o r : e \in PerEntities(Head(texts)), r \in PipeOutputs(Tail(texts))}

\* lines 81-86 for one doc
RedactDoc(text, spans, replacement) ==
    IF spans # <<>> THEN _apply_spans(text, _merge_spans(spans), replacement) ELSE text

-----------------------------------------------------------------------------
(* Specification Spec: the process.  The caller invokes the public operations one  *)
(* after the other; each action is one whole call, Return hands the result back.   *)

NamePlaceholder == <<"[", "N", "A", "M", "E", "]">>
CasePlaceholder == <<"[", "F", "A", "L", "L", "-", "I", "D", "]">>

\* the batch entries the caller passes
Docs == {NoneV, IntV, Str(<<>>), Str(<<" ">>),
         Str(<<"a", "s", " ", "E", "/", "1", "/", "2">>)}

Batches == SeqsUpTo(Docs, MaxBatch)

Init ==
    /\ call = NoCall
    /\ ret = Pending
    /\ Idle

\* load_model(model_name)
load_model(model_name) ==
    /\ call = NoCall
    /\ LET l == load_spacy_model(model_name, _spacy_nlp, spacy_loads)
       IN  /\ _spacy_nlp' = l.nlp
           /\ spacy_loads' = l.loads
           /\ ret' = IF l.exc = "none" THEN [kind |-> "none"]
                     ELSE [kind |-> "raise", exc |-> l.exc]
    /\ call' = [op |-> "load_model", model_name |-> model_name]
    /\ UNCHANGED <<_surname_cache, readable, file_reads, piped, detected, tpc, targ, tval>>

\* redact_names_batch(texts, replacement, model_name)
redact_names_batch(texts, replacement, model_name) ==
    /\ call = NoCall
    /\ call' = [op |-> "redact_names_batch", texts |-> texts,
                replacement |-> replacement, model_name |-> model_name]
    /\ LET safe == safe_texts(texts)
           l == load_spacy_model(model_name, _spacy_nlp, spacy_loads)
       IN  /\ _spacy_nlp' = l.nlp
           /\ spacy_loads' = l.loads
           /\ IF l.exc # "none"
              THEN /\ ret' = [kind |-> "raise", exc |-> l.exc]
                   /\ UNCHANGED <<piped, detected>>
              ELSE \E ents \in PipeOutputs(safe) :
                       /\ piped' = [nlp |-> l.nlp, texts |-> safe]
                       /\ detected' = 1..Len(safe)
                       /\ ret' = [kind |-> "list",
                                  list |-> NoneWhereNone(texts,
                                      [i \in 1..Len(safe) |->
                                          Str(RedactDoc(safe[i], ents[i], replacement))])]
    /\ UNCHANGED <<_surname_cache, readable, file_reads, tpc, targ, tval>>

\* the loop of lines 194-202 from entry i on; acc carries the results so far, the cache,
\* the read counts, the positions given to _dict_spans and the exception raised, if any
RECURSIVE DictBatchLoop(_, _, _, _, _, _, _)
DictBatchLoop(texts, i, dict_path, replacement, title_prefix, files, acc) ==
    IF i > Len(texts) \/ acc.exc # "none" THEN acc
    ELSE IF Skipped(texts[i])
    THEN DictBatchLoop(texts, i + 1, dict_path, replacement, title_prefix, files,
                       [acc EXCEPT !.results = Append(@, texts[i])])
    ELSE LET d == _dict_spans(texts[i].val, dict_path, title_prefix, acc.cache, files,
                              acc.reads)
         IN  DictBatchLoop(texts, i + 1, dict_path, replacement, title_prefix, files,
                 [results |-> IF d.exc = "none"
                              THEN Append(acc.results,
                                          Str(RedactDoc(texts[i].val, d.spans, replacement)))
                              ELSE acc.results,
                  cache |-> d.cache,
                  reads |-> d.reads,
                  looked |-> acc.looked \cup {i},
                  exc |-> d.exc])

\* redact_names_dict_batch(texts, dict_path, replacement, title_prefix)
redact_names_dict_batch(texts, dict_path, replacement, title_prefix) ==
    /\ call = NoCall
    /\ call' = [op |-> "redact_names_dict_batch", texts |-> texts, dict_path |-> dict_path,
                replacement |-> replacement, title_prefix |-> title_prefix,
                cached_before |-> _surname_cache[dict_path] # NotCached]
    /\ LET r == DictBatchLoop(texts, 1, dict_path, replacement, title_prefix, readable,
                              [results |-> <<>>, cache |-> _surname_cache,
                               reads |-> file_reads, looked |-> {}, exc |-> "none"])
       IN  /\ _surname_cache' = r.cache
           /\ file_reads' = r.reads
           /\ detected' = r.looked
           /\ ret' = IF r.exc = "none"
                     THEN [kind |-> "list", list |-> NoneWhereNone(texts, r.results)]
                     ELSE [kind |-> "raise", exc |-> r.exc]
    /\ UNCHANGED <<_spacy_nlp, readable, spacy_loads, piped, tpc, targ, tval>>

\* the patterns the caller passes: None (the default pattern) or the malformed "("
Patterns == {"None", "("}

\* redact_case_ids_batch(texts, replacement, pattern)
redact_case_ids_batch(texts, replacement, pattern) ==
    /\ call = NoCall
    /\ call' = [op |-> "redact_case_ids_batch", texts |-> texts,
                replacement |-> replacement, pattern |-> pattern]
    /\ IF pattern # "None"
       THEN /\ ret' = [kind |-> "raise", exc |-> "re.error"]
            /\ UNCHANGED detected
       ELSE /\ detected' = {i \in 1..Len(texts) : ~Skipped(texts[i])}
            /\ ret' = [kind |-> "list",
                       list |-> NoneWhereNone(texts,
                           [i \in 1..Len(texts) |->
                               IF Skipped(texts[i]) THEN texts[i]
                               ELSE Str(compiled_sub(replacement, texts[i].val))])]
    /\ UNCHANGED <<_spacy_nlp, _surname_cache, readable, spacy_loads, file_reads, piped,
                   tpc, targ, tval>>

\* the caller takes the result; the process is between calls again
Return ==
    /\ call # NoCall
    /\ call' = NoCall
    /\ ret' = Pending
    /\ piped' = NoPipe
    /\ detected' = {}
    /\ UNCHANGED <<_spacy_nlp, _surname_cache, readable, spacy_loads, file_reads,
                   tpc, targ, tval>>

\* the environment removes a dictionary file between two calls
Unlink(path) ==
    /\ call = NoCall
    /\ path \in readable
    /\ readable' = readable \ {path}
    /\ UNCHANGED <<call, ret, _spacy_nlp, _surname_cache, spacy_loads, file_reads, piped,
                   detected, tpc, targ, tval>>

Next ==
    \/ \E m \in Models : load_model(m)
    \/ \E texts \in Batches, m \in Models : redact_names_batch(texts, NamePlaceholder, m)
    \/ \E texts \in Batches, p \in Paths, b \in BOOLEAN :
           redact_names_dict_batch(texts, p, NamePlaceholder, b)
    \/ \E texts \in Batches, pat \in Patterns :
           redact_case_ids_batch(texts, CasePlaceholder, pat)
    \/ Return
    \/ \E p \in Paths : Unlink(p)

Spec == Init /\ [][Next]_vars

\* C1: each batch operation returns a list as long as its input in which every position
\* whose input entry is None or not a str holds that input entry unchanged.
BatchPassThrough ==
    (call.op \in {"redact_names_batch", "redact_names_dict_batch", "redact_case_ids_batch"}
        /\ ret.kind = "list") =>
        /\ Len(ret.list) = Len(call.texts)
        /\ \A i \in 1..Len(call.texts) :
               ~IsStr(call.texts[i]) => ret.list[i] = call.texts[i]

\* C4: every redact_names_batch call that returns from a batch that is not empty ran
\* inference with the pipeline of its own model_name, and no model name has been loaded
\* more than once.
ModelCacheKeyed ==
    /\ (call.op = "redact_names_batch" /\ ret.kind = "list" /\ call.texts # <<>>)
           => piped.nlp = call.model_name
    /\ \A m \in Models : spacy_loads[m] <= 1

\* C6 as stated: a redact_names_dict_batch call whose dictionary cannot be read and is not
\* cached raises, whatever the batch.
UnreadableDictAlwaysRaises ==
    (call.op = "redact_names_dict_batch" /\ call.dict_path \notin readable
        /\ ~call.cached_before) => ret.kind = "raise"

\* C6 as amended: a redact_names_dict_batch call whose dictionary cannot be read and is
\* not cached raises the I/O error whenever the batch holds at least one str entry that
\* is not empty or all whitespace.
UnreadableDictRaises ==
    (call.op = "redact_names_dict_batch" /\ call.dict_path \notin readable
        /\ ~call.cached_before
        /\ \E i \in 1..Len(call.texts) : ~Skipped(call.texts[i]))
            => (ret.kind = "raise" /\ ret.exc = "OSError")

\* a call on the missing dictionary with a blank entry before a real text has raised
UnreadableDictWitness ==
    /\ call.op = "redact_names_dict_batch"
    /\ call.dict_path \notin readable
    /\ ~call.cached_before
    /\ Len(call.texts) = 2
    /\ Skipped(call.texts[1])
    /\ ~Skipped(call.texts[2])
    /\ ret.kind = "raise"

\* C8: in each batch operation an entry that is an empty or all-whitespace str is
\* returned unchanged at its position and is not handed to any detector.
BlankNotDetected ==
    (call.op \in {"redact_names_batch", "redact_names_dict_batch", "redact_case_ids_batch"}
        /\ ret.kind = "list") =>
        \A i \in 1..Len(call.texts) :
            (IsStr(call.texts[i]) /\ strip(call.texts[i].val) = <<>>) =>
                (ret.list[i] = call.texts[i] /\ i \notin detected)

-----------------------------------------------------------------------------
(* Specification SpecTitle: _dict_spans with title absorption on every bounded text *)
(* over the letters of the title CA, period and blank, the dictionary being {"a"}   *)

TitleAlphabet == {"c", "a", "A", ".", " "}

InitTitle ==
    /\ call \in {[op |-> "_dict_spans", text |-> t, dict_path |-> "d_a.txt", title_prefix |-> b] :
                    t \in SeqsUpTo(TitleAlphabet, MaxTitleLen), b \in BOOLEAN}
    /\ ret = Pending
    /\ Idle

SpecTitle == InitTitle /\ [][NextDict]_vars

\* text[p:q] is one title abbreviation, with or without a period
IsTitle(text, p, q) ==
    \E w \in TitleWords \cup {<<"d", "r">>} :
        /\ LitAt(text, p, w)
        /\ (q = p + Len(w) \/ (q = p + Len(w) + 1 /\ At(text, q - 1) = "."))

\* text[p:s] is a title (or Prof and Dr, whitespace between them) and then only whitespace
IsTitlePrefix(text, p, s) ==
    \E q \in p..s :
        /\ \A i \in q..(s - 1) : At(text, i) \in Whitespace
        /\ \/ IsTitle(text, p, q)
           \/ \E m, n \in p..q :
                  /\ m < n
                  /\ IsTitle(text, p, m)
                  /\ \A i \in m..(n - 1) : At(text, i) \in Whitespace
                  /\ IsTitle(text, n, q)

\* C10: with title absorption enabled every span lies inside the text, ends at the end of
\* a word token and starts at that token's start or at the first character of a whole
\* title abbreviation right before it, never inside a longer preceding word.
TitleSpansWhole ==
    (call.op = "_dict_spans" /\ call.title_prefix /\ ret.kind = "spans") =>
        \A k \in 1..Len(ret.spans) :
            LET sp == ret.spans[k]
            IN  /\ 0 <= sp[1] /\ sp[1] <= sp[2] /\ sp[2] <= Len(call.text)
                /\ \E s \in 0..Len(call.text) :
                       /\ IsWordToken(call.text, s, sp[2])
                       /\ \/ sp[1] = s
                          \/ /\ sp[1] < s
                             /\ IsTitlePrefix(call.text, sp[1], s)
                             /\ At(call.text, sp[1] - 1) \notin Letters

\* the part of C10 the code does satisfy: the same, without the demand that the title
\* is a whole word (kept as a check of the model, not as a claim's formula)
TitleSpansShape ==
    (call.op = "_dict_spans" /\ call.title_prefix /\ ret.kind = "spans") =>
        \A k \in 1..Len(ret.spans) :
            LET sp == ret.spans[k]
            IN  /\ 0 <= sp[1] /\ sp[1] <= sp[2] /\ sp[2] <= Len(call.text)
                /\ \E s \in 0..Len(call.text) :
                       /\ IsWordToken(call.text, s, sp[2])
                       /\ (sp[1] = s \/ (sp[1] < s /\ IsTitlePrefix(call.text, sp[1], s)))

-----------------------------------------------------------------------------
(* Specification SpecThreads: threads of one process make first use of the caches *)
(* concurrently.  Neither loader takes a lock, so another thread may run between  *)
(* the membership test, the load and the store of one call.                       *)

ThreadUnchanged == UNCHANGED <<call, ret, readable, piped, detected>>

InitThreads ==
    /\ call = NoCall
    /\ ret = Pending
    /\ Idle

\* thread t calls load_surname_dict(path)
BeginDict(t, path) ==
    /\ tpc[t] = "idle"
    /\ tpc' = [tpc EXCEPT ![t] = "dict_check"]
    /\ targ' = [targ EXCEPT ![t] = path]
    /\ UNCHANGED <<_spacy_nlp, _surname_cache, spacy_loads, file_reads, tval>>
    /\ ThreadUnchanged

\* line 115: if dict_path not in _surname_cache
DictCheck(t) ==
    /\ tpc[t] = "dict_check"
    /\ tpc' = [tpc EXCEPT ![t] = IF _surname_cache[targ[t]] = NotCached
                                 THEN "dict_read" ELSE "dict_return"]
    /\ UNCHANGED <<_spacy_nlp, _surname_cache, spacy_loads, file_reads, targ, tval>>
    /\ ThreadUnchanged

\* lines 116-120 and the right-hand side of line 121: open and read the file, build the set
DictRead(t) ==
    /\ tpc[t] = "dict_read"
    /\ IF targ[t] \in readable
       THEN /\ tval' = [tval EXCEPT ![t] = [obj |-> file_reads[targ[t]] + 1,
                                            names |-> NamesOf(FileLines(targ[t]))]]
            /\ file_reads' = [file_reads EXCEPT ![targ[t]] = @ + 1]
            /\ tpc' = [tpc EXCEPT ![t] = "dict_store"]
       ELSE /\ tpc' = [tpc EXCEPT ![t] = "raised"]
            /\ UNCHANGED <<tval, file_reads>>
    /\ UNCHANGED <<_spacy_nlp, _surname_cache, spacy_loads, targ>>
    /\ ThreadUnchanged

\* line 121: _surname_cache[dict_path] = ...
DictStore(t) ==
    /\ tpc[t] = "dict_store"
    /\ _surname_cache' = [_surname_cache EXCEPT ![targ[t]] = tval[t]]
    /\ tpc' = [tpc EXCEPT ![t] = "dict_return"]
    /\ UNCHANGED <<_spacy_nlp, spacy_loads, file_reads, targ, tval>>
    /\ ThreadUnchanged

\* line 122: return _surname_cache[dict_path]
DictReturn(t) ==
    /\ tpc[t] = "dict_return"
    /\ tval' = [tval EXCEPT ![t] = _surname_cache[targ[t]]]
    /\ tpc' = [tpc EXCEPT ![t] = "done"]
    /\ UNCHANGED <<_spacy_nlp, _surname_cache, spacy_loads, file_reads, targ>>
    /\ ThreadUnchanged

\* thread t calls load_spacy_model(model_name)
BeginModel(t, model_name) ==
    /\ tpc[t] = "idle"
    /\ tpc' = [tpc EXCEPT ![t] = "nlp_check"]
    /\ targ' = [targ EXCEPT ![t] = model_name]
    /\ UNCHANGED <<_spacy_nlp, _surname_cache, spacy_loads, file_reads, tval>>
    /\ ThreadUnchanged

\* line 27: if _spacy_nlp is None
NlpCheck(t) ==
    /\ tpc[t] = "nlp_check"
    /\ tpc' = [tpc EXCEPT ![t] = IF _spacy_nlp = "None" THEN "nlp_load" ELSE "done"]
    /\ UNCHANGED <<_spacy_nlp, _surname_cache, spacy_loads, file_reads, targ, tval>>
    /\ ThreadUnchanged

\* lines 29-36: spacy.load(model_name), or the OSError for a model that is not installed
NlpLoad(t) ==
    /\ tpc[t] = "nlp_load"
    /\ IF targ[t] \in Installed
       THEN /\ spacy_loads' = [spacy_loads EXCEPT ![targ[t]] = @ + 1]
            /\ tpc' = [tpc EXCEPT ![t] = "nlp_store"]
       ELSE /\ tpc' = [tpc EXCEPT ![t] = "raised"]
            /\ UNCHANGED spacy_loads
    /\ UNCHANGED <<_spacy_nlp, _surname_cache, file_reads, targ, tval>>
    /\ ThreadUnchanged

\* line 30: the assignment to the global _spacy_nlp
NlpStore(t) ==
    /\ tpc[t] = "nlp_store"
    /\ _spacy_nlp' = targ[t]
    /\ tpc' = [tpc EXCEPT ![t] = "done"]
    /\ UNCHANGED <<_surname_cache, spacy_loads, file_reads, targ, tval>>
    /\ ThreadUnchanged

\* the call of thread t has returned or raised; the thread is free for its next call
Finish(t) ==
    /\ tpc[t] \in {"done", "raised"}
    /\ tpc' = [tpc EXCEPT ![t] = "idle"]
    /\ targ' = [targ EXCEPT ![t] = "none"]
    /\ tval' = [tval EXCEPT ![t] = NotCached]
    /\ UNCHANGED <<_spacy_nlp, _surname_cache, spacy_loads, file_reads>>
    /\ ThreadUnchanged

NextThreads ==
    \E t \in Threads :
        \/ \E p \in Paths : BeginDict(t, p)
        \/ DictCheck(t)
        \/ DictRead(t)
        \/ DictStore(t)
        \/ DictReturn(t)
        \/ \E m \in Models : BeginModel(t, m)
        \/ NlpCheck(t)
        \/ NlpLoad(t)
        \/ NlpStore(t)
        \/ Finish(t)

SpecThreads == InitThreads /\ [][NextThreads]_vars

\* C5: in every interleaving each dictionary path is read at most once and each model is
\* loaded at most once, and threads whose load_surname_dict calls on one path have
\* returned hold the same set object.
LoadsAtMostOnce ==
    /\ \A p \in AllPaths : file_reads[p] <= 1
    /\ \A m \in Models : spacy_loads[m] <= 1
    /\ \A t, u \in Threads :
           (tpc[t] = "done" /\ tpc[u] = "done" /\ targ[t] \in AllPaths /\ targ[u] = targ[t])
               => tval[t] = tval[u]

=============================================================================
